---------------------------- MODULE Spec2Model ----------------------------
(***************************************************************************)
(* A model of the travel-sample REST API (FastAPI + Couchbase).            *)
(*                                                                         *)
(* The state is the document store as the key-value API sees it, plus the  *)
(* HTTP exchange in progress (request, response) and the store calls its   *)
(* handler made.  Every route handler is one action: it makes its gateway  *)
(* call, maps the outcome to an HTTP response and returns.  Around the     *)
(* handlers is the process: the lifespan of the application, the client    *)
(* that get_db constructs and caches, and the dependency that hands that   *)
(* client to every handler.  Handlers are plain functions, which the       *)
(* framework runs on the workers of a thread pool: besides the exchange    *)
(* whose worker is running, the state holds the exchanges of the workers   *)
(* that wait their turn.                                                   *)
(*                                                                         *)
(* JSON values: a field value is <<>> (null / None) or <<v>> (the value    *)
(* v).  A JSON object is a function from the names of the fields that are  *)
(* present to such values; a missing field is not in its DOMAIN.           *)
(***************************************************************************)
EXTENDS Integers, Sequences, FiniteSets, TLC

VARIABLES
    store,       \* the documents: a function from <<collection, key>> to a document
    lastWrite,   \* history: per <<collection, key>>, the last successful write
    request,     \* the HTTP request in flight
    response,    \* the response to it, once its handler has returned
    storeCalls,  \* the calls that handler made to the store, in order
    lifespan,    \* where the application's lifespan stands
    environ,     \* the process environment: DB_CONN_STR, DB_USERNAME, DB_PASSWORD
    cache,       \* what functools.cache holds for get_db: nothing, or a client
    clients,     \* the CouchbaseClient objects constructed so far
    bootstraps,  \* history: every run of CouchbaseClient.connect, in order
    closes,      \* history: every call of CouchbaseClient.close, in order
    db,          \* the client injected into the handler of the request in flight
    threadpool   \* the exchanges of the workers that are not running now

\* The process around the handlers: the lifespan, the cached client, the
\* clients and their connections.
process == <<lifespan, environ, cache, clients, bootstraps, closes, threadpool>>

vars == <<store, lastWrite, request, response, storeCalls, process, db>>

None == <<>>
Some(v) == <<v>>

----------------------------------------------------------------------------
(* Collections and example keys.                                           *)

AIRLINE_COLLECTION == "airline"
AIRPORT_COLLECTION == "airport"
ROUTE_COLLECTION == "route"
HOTEL_COLLECTION == "hotel"

EXAMPLE_AIRLINE_ID == "airline_10"
EXAMPLE_AIRPORT_ID == "airport_1273"
EXAMPLE_ROUTE_ID == "route_10000"

\* The keys the modelled clients address with key-value requests: the example
\* keys, which the travel-sample data holds, and one it does not hold.
AirlineIds == {EXAMPLE_AIRLINE_ID, "airline_0"}
AirportIds == {EXAMPLE_AIRPORT_ID}
RouteIds == {EXAMPLE_ROUTE_ID}

\* The travel-sample data the bucket is loaded with before the application
\* starts (a few documents of each collection; a stored document also holds
\* the fields id and type, which no model of the API declares).
TravelSample ==
    [s \in {<<AIRLINE_COLLECTION, "airline_10">>, <<AIRLINE_COLLECTION, "airline_137">>,
            <<AIRLINE_COLLECTION, "airline_1191">>, <<AIRLINE_COLLECTION, "airline_1355">>,
            <<AIRPORT_COLLECTION, "airport_1273">>, <<AIRPORT_COLLECTION, "airport_3469">>,
            <<AIRPORT_COLLECTION, "airport_3797">>,
            <<ROUTE_COLLECTION, "route_10000">>, <<ROUTE_COLLECTION, "route_10001">>,
            <<ROUTE_COLLECTION, "route_10002">>, <<ROUTE_COLLECTION, "route_10003">>} |->
        CASE s[2] = "airline_10" ->
               [id |-> Some(10), type |-> Some("airline"), name |-> Some("40-Mile Air"),
                iata |-> Some("Q5"), icao |-> Some("MLA"), callsign |-> Some("MILE-AIR"),
                country |-> Some("United States")]
          [] s[2] = "airline_137" ->
               [id |-> Some(137), type |-> Some("airline"), name |-> Some("Air France"),
                iata |-> Some("AF"), icao |-> Some("AFR"), callsign |-> Some("AIRFRANS"),
                country |-> Some("France")]
          [] s[2] = "airline_1191" ->
               [id |-> Some(1191), type |-> Some("airline"), name |-> Some("Corsairfly"),
                iata |-> Some("SS"), icao |-> Some("CRL"), callsign |-> Some("CORSAIR"),
                country |-> Some("France")]
          [] s[2] = "airline_1355" ->
               [id |-> Some(1355), type |-> Some("airline"), name |-> Some("British Airways"),
                iata |-> Some("BA"), icao |-> Some("BAW"), callsign |-> Some("SPEEDBIRD"),
                country |-> Some("United Kingdom")]
          [] s[2] = "airport_1273" ->
               [id |-> Some(1273), type |-> Some("airport"),
                airportname |-> Some("Charles De Gaulle"), city |-> Some("Paris"),
                country |-> Some("France"), faa |-> Some("CDG"), icao |-> Some("LFPG"),
                tz |-> Some("Europe/Paris"),
                geo |-> Some([lat |-> 49, lon |-> 2, alt |-> 392])]
          [] s[2] = "airport_3469" ->
               [id |-> Some(3469), type |-> Some("airport"),
                airportname |-> Some("San Francisco Intl"), city |-> Some("San Francisco"),
                country |-> Some("United States"), faa |-> Some("SFO"), icao |-> Some("KSFO"),
                tz |-> Some("America/Los_Angeles"),
                geo |-> Some([lat |-> 37, lon |-> -122, alt |-> 13])]
          [] s[2] = "airport_3797" ->
               [id |-> Some(3797), type |-> Some("airport"),
                airportname |-> Some("John F Kennedy Intl"), city |-> Some("New York"),
                country |-> Some("United States"), faa |-> Some("JFK"), icao |-> Some("KJFK"),
                tz |-> Some("America/New_York"),
                geo |-> Some([lat |-> 40, lon |-> -73, alt |-> 13])]
          [] s[2] = "route_10000" ->
               [id |-> Some(10000), type |-> Some("route"), airline |-> Some("AF"),
                airlineid |-> Some("airline_137"), sourceairport |-> Some("CDG"),
                destinationairport |-> Some("SFO"), stops |-> Some(0),
                equipment |-> Some("320"), distance |-> Some(8951),
                schedule |-> Some(<<[day |-> 0, flight |-> "AF10", utc |-> "10:05:00"]>>)]
          [] s[2] = "route_10001" ->
               [id |-> Some(10001), type |-> Some("route"), airline |-> Some("AF"),
                airlineid |-> Some("airline_137"), sourceairport |-> Some("CDG"),
                destinationairport |-> Some("JFK"), stops |-> Some(0),
                equipment |-> Some("777"), distance |-> Some(5831),
                schedule |-> Some(<<[day |-> 1, flight |-> "AF6", utc |-> "08:30:00"]>>)]
          [] s[2] = "route_10002" ->
               [id |-> Some(10002), type |-> Some("route"), airline |-> Some("BA"),
                airlineid |-> Some("airline_1355"), sourceairport |-> Some("JFK"),
                destinationairport |-> Some("SFO"), stops |-> Some(0),
                equipment |-> Some("744"), distance |-> Some(4151),
                schedule |-> Some(<<[day |-> 2, flight |-> "BA11", utc |-> "12:00:00"]>>)]
          [] s[2] = "route_10003" ->
               [id |-> Some(10003), type |-> Some("route"), airline |-> Some("Q5"),
                airlineid |-> Some("airline_10"), sourceairport |-> Some("CDG"),
                destinationairport |-> Some("SFO"), stops |-> Some(1),
                equipment |-> Some("CNA"), distance |-> Some(8951),
                schedule |-> Some(<<[day |-> 3, flight |-> "Q51", utc |-> "23:10:00"]>>)]]

----------------------------------------------------------------------------
(* The pydantic models: the declared fields and the required ones.         *)

Airline ==
    [fields |-> {"name", "iata", "icao", "callsign", "country"},
     required |-> {"name", "country"}]

Airport ==
    [fields |-> {"airportname", "city", "country", "faa", "icao", "tz", "geo"},
     required |-> {"airportname", "city", "country"}]

Route ==
    [fields |-> {"airline", "airlineid", "sourceairport", "destinationairport",
                 "stops", "equipment", "schedule", "distance"},
     required |-> {"airline", "airlineid", "sourceairport", "destinationairport"}]

\* Whether a JSON object passes the model's validation: every required field is
\* present and not null.
IsValid(model, data) ==
    \A f \in model.required : f \in DOMAIN data /\ data[f] # None

\* BaseModel validation: the declared fields are kept, a declared field that is
\* missing takes its default (None), any other field of the input is dropped.
Validate(model, data) ==
    [f \in model.fields |-> IF f \in DOMAIN data THEN data[f] ELSE None]

\* BaseModel.model_dump(): a dict holding every declared field, None included.
model_dump(obj) == [f \in DOMAIN obj |-> obj[f]]

----------------------------------------------------------------------------
(* The store's outcomes.  A gateway call either returns or raises; a raise *)
(* that is neither not-found nor already-exists carries a message text.    *)

NoExc == "none"
DocumentNotFoundException == "DocumentNotFoundException"
DocumentExistsException == "DocumentExistsException"
CouchbaseException == "CouchbaseException"

NoFault == "ok"
Faults == {"unambiguous_timeout"}

Returned(value, st) == [exc |-> NoExc, msg |-> "", value |-> value, store |-> st]
Raised(exc, msg, st) == [exc |-> exc, msg |-> msg, value |-> None, store |-> st]

Remove(st, slot) == [s \in DOMAIN st \ {slot} |-> st[s]]
Put(st, slot, doc) == [s \in DOMAIN st \cup {slot} |-> IF s = slot THEN doc ELSE st[s]]

\* insert that overwrites a document already stored instead of raising.
insert_document_overwrites(st, collection_name, key, doc, fault) ==
    IF fault # NoFault THEN Raised(CouchbaseException, fault, st)
    ELSE Returned(None, Put(st, <<collection_name, key>>, doc))

\* insert that stores an empty document instead of the one it is given.
insert_document_empty(st, collection_name, key, doc, fault) ==
    IF fault # NoFault THEN Raised(CouchbaseException, fault, st)
    ELSE IF <<collection_name, key>> \in DOMAIN st
         THEN Raised(DocumentExistsException, "document exists", st)
         ELSE Returned(None, Put(st, <<collection_name, key>>, [f \in {} |-> None]))

\* insert that writes the document before it reports that the key is held.
insert_document_clobbers(st, collection_name, key, doc, fault) ==
    IF fault # NoFault THEN Raised(CouchbaseException, fault, st)
    ELSE IF <<collection_name, key>> \in DOMAIN st
         THEN Raised(DocumentExistsException, "document exists",
                     Put(st, <<collection_name, key>>, doc))
         ELSE Returned(None, Put(st, <<collection_name, key>>, doc))

\* insert that returns quietly, writing nothing, when the key is held.
insert_document_blind(st, collection_name, key, doc, fault) ==
    IF fault # NoFault THEN Raised(CouchbaseException, fault, st)
    ELSE IF <<collection_name, key>> \in DOMAIN st
         THEN Returned(None, st)
         ELSE Returned(None, Put(st, <<collection_name, key>>, doc))

\* remove that cascades: removing an airline removes the routes that name it.
delete_document_cascades(st, collection_name, key, fault) ==
    IF fault # NoFault THEN Raised(CouchbaseException, fault, st)
    ELSE IF <<collection_name, key>> \notin DOMAIN st
         THEN Raised(DocumentNotFoundException, "document not found", st)
         ELSE Returned(None,
                  [s \in {t \in DOMAIN st \ {<<collection_name, key>>} :
                              ~(/\ "airlineid" \in DOMAIN st[t]
                                /\ st[t]["airlineid"] = Some(key))} |-> st[s]])

\* remove that reports success and leaves the document in place.
delete_document_keeps(st, collection_name, key, fault) ==
    IF fault # NoFault THEN Raised(CouchbaseException, fault, st)
    ELSE IF <<collection_name, key>> \notin DOMAIN st
         THEN Raised(DocumentNotFoundException, "document not found", st)
         ELSE Returned(None, st)

\* remove that does not raise for a key that holds no document.
delete_document_idempotent(st, collection_name, key, fault) ==
    IF fault # NoFault THEN Raised(CouchbaseException, fault, st)
    ELSE Returned(None, Remove(st, <<collection_name, key>>))

\* upsert that merges into the stored document: a field the new document
\* leaves null keeps its stored value.
upsert_document_merges(st, collection_name, key, doc, fault) ==
    LET slot == <<collection_name, key>>
        old == IF slot \in DOMAIN st THEN st[slot] ELSE doc
        merged == [f \in DOMAIN old \cup DOMAIN doc |->
                      IF f \in DOMAIN doc /\ (doc[f] # None \/ f \notin DOMAIN old)
                      THEN doc[f] ELSE old[f]]
    IN  IF fault # NoFault THEN Raised(CouchbaseException, fault, st)
        ELSE Returned(None, Put(st, slot, merged))

\* CouchbaseClient.get_document: collection.get(key)
get_document(st, collection_name, key, fault) ==
    IF fault # NoFault THEN Raised(CouchbaseException, fault, st)
    ELSE IF <<collection_name, key>> \notin DOMAIN st
         THEN Raised(DocumentNotFoundException, "document not found", st)
         ELSE Returned(st[<<collection_name, key>>], st)

\* CouchbaseClient.insert_document: collection.insert(key, doc)
insert_document(st, collection_name, key, doc, fault) ==
    IF fault # NoFault THEN Raised(CouchbaseException, fault, st)
    ELSE IF <<collection_name, key>> \in DOMAIN st
         THEN Raised(DocumentExistsException, "document exists", st)
         ELSE Returned(None, Put(st, <<collection_name, key>>, doc))

\* CouchbaseClient.delete_document: collection.remove(key)
delete_document(st, collection_name, key, fault) ==
    IF fault # NoFault THEN Raised(CouchbaseException, fault, st)
    ELSE IF <<collection_name, key>> \notin DOMAIN st
         THEN Raised(DocumentNotFoundException, "document not found", st)
         ELSE Returned(None, Remove(st, <<collection_name, key>>))

\* CouchbaseClient.upsert_document: collection.upsert(key, doc)
upsert_document(st, collection_name, key, doc, fault) ==
    IF fault # NoFault THEN Raised(CouchbaseException, fault, st)
    ELSE Returned(None, Put(st, <<collection_name, key>>, doc))

----------------------------------------------------------------------------
(* HTTP responses.                                                         *)

\* raise HTTPException(status_code, detail): the framework answers with that
\* status and the body {"detail": detail}.
HTTPException(status_code, detail) ==
    [status |-> status_code, body |-> [detail |-> detail]]

\* A handler's return value, serialized through the route's response_model
\* under the route's status code.
JSONResponse(status_code, content) == [status |-> status_code, body |-> content]

\* A return value that fails the response_model's validation raises
\* ResponseValidationError out of the route; the server answers 500 with
\* the plain text below.
InternalServerError == [status |-> 500, body |-> [text |-> "Internal Server Error"]]

\* f"Unexpected error: {e}"
UnexpectedError(msg) == "Unexpected error: " \o msg

HTTP_201_CREATED == 201
HTTP_204_NO_CONTENT == 204

----------------------------------------------------------------------------
(* The server handles one request at a time: it receives a request, the    *)
(* route's handler runs and leaves the response, and the response is sent. *)

NoRequest == [method |-> "none", endpoint |-> "none"]
Pending == [status |-> 0]

\* The router: the request in flight is for this route and its handler has not
\* run yet.
Routed(method, endpoint) ==
    /\ request.method = method
    /\ request.endpoint = endpoint
    /\ response = Pending

\* The record of one call to the store: what was called and how it ended.
Call(op, args, r) == [op |-> op, args |-> args, exc |-> r.exc, msg |-> r.msg]

----------------------------------------------------------------------------
(* The four key-value handlers, common to airline, airport and route.  Each *)
(* handler below instantiates one of them with its collection, its model   *)
(* and its own detail text.                                                *)

\* try: return db.get_document(COLLECTION, id).content_as[dict]
\* except DocumentNotFoundException: raise HTTPException(404, ...)
\* except Exception as e: raise HTTPException(500, f"Unexpected error: {e}")
ReadResponse(model, not_found, r) ==
    IF r.exc = NoExc
    THEN IF IsValid(model, r.value)
         THEN JSONResponse(200, Validate(model, r.value))
         ELSE InternalServerError
    ELSE IF r.exc = DocumentNotFoundException THEN HTTPException(404, not_found)
    ELSE HTTPException(500, UnexpectedError(r.msg))

\* try: db.insert_document(COLLECTION, id, obj.model_dump()); return obj
\* except DocumentExistsException: raise HTTPException(409, ...)
\* except Exception as e: raise HTTPException(500, f"Unexpected error: {e}")
CreateResponse(obj, exists, r) ==
    IF r.exc = NoExc THEN JSONResponse(HTTP_201_CREATED, obj)
    ELSE IF r.exc = DocumentExistsException THEN HTTPException(409, exists)
    ELSE HTTPException(500, UnexpectedError(r.msg))

\* try: db.upsert_document(COLLECTION, id, obj.model_dump()); return obj
\* except Exception as e: raise HTTPException(500, f"Unexpected error: {e}")
UpdateResponse(obj, r) ==
    IF r.exc = NoExc THEN JSONResponse(200, obj)
    ELSE HTTPException(500, UnexpectedError(r.msg))

\* try: db.delete_document(COLLECTION, id)
\* except DocumentNotFoundException: raise HTTPException(404, ...)
\* except Exception as e: raise HTTPException(500, f"Unexpected error: {e}")
DeleteResponse(not_found, r) ==
    IF r.exc = NoExc THEN JSONResponse(HTTP_204_NO_CONTENT, None)
    ELSE IF r.exc = DocumentNotFoundException THEN HTTPException(404, not_found)
    ELSE HTTPException(500, UnexpectedError(r.msg))

\* The history of writes: a successful insert, upsert or remove is recorded
\* under its key with the body the client sent.
Written(r, collection, id, verb, body) ==
    IF r.exc = NoExc
    THEN Put(lastWrite, <<collection, id>>, [verb |-> verb, body |-> body])
    ELSE lastWrite

\* A read that tries once more when the store fails.
Read_retries(collection, model, not_found, fault) ==
    LET id == request.id
        r == get_document(store, collection, id, fault)
        again == get_document(store, collection, id, NoFault) IN
    /\ storeCalls' = IF r.exc = CouchbaseException
                      THEN <<Call("get", <<collection, id>>, r),
                             Call("get", <<collection, id>>, again)>>
                      ELSE <<Call("get", <<collection, id>>, r)>>
    /\ response' = ReadResponse(model, not_found,
                                IF r.exc = CouchbaseException THEN again ELSE r)
    /\ store' = r.store
    /\ UNCHANGED <<request, lastWrite, process, db>>

Read(collection, model, not_found, fault) ==
    LET id == request.id
        r == get_document(store, collection, id, fault) IN
    /\ storeCalls' = <<Call("get", <<collection, id>>, r)>>
    /\ response' = ReadResponse(model, not_found, r)
    /\ store' = r.store
    /\ UNCHANGED <<request, lastWrite, process, db>>

Create(collection, model, exists, fault) ==
    LET id == request.id
        obj == Validate(model, request.body)
        r == insert_document(store, collection, id, model_dump(obj), fault) IN
    /\ storeCalls' = <<Call("insert", <<collection, id>>, r)>>
    /\ response' = CreateResponse(obj, exists, r)
    /\ store' = r.store
    /\ lastWrite' = Written(r, collection, id, "POST", request.body)
    /\ UNCHANGED <<request, process, db>>

Update(collection, model, fault) ==
    LET id == request.id
        obj == Validate(model, request.body)
        r == upsert_document(store, collection, id, model_dump(obj), fault) IN
    /\ storeCalls' = <<Call("upsert", <<collection, id>>, r)>>
    /\ response' = UpdateResponse(obj, r)
    /\ store' = r.store
    /\ lastWrite' = Written(r, collection, id, "PUT", request.body)
    /\ UNCHANGED <<request, process, db>>

Delete(collection, not_found, fault) ==
    LET id == request.id
        r == delete_document(store, collection, id, fault) IN
    /\ storeCalls' = <<Call("remove", <<collection, id>>, r)>>
    /\ response' = DeleteResponse(not_found, r)
    /\ store' = r.store
    /\ lastWrite' = Written(r, collection, id, "DELETE", None)
    /\ UNCHANGED <<request, process, db>>

----------------------------------------------------------------------------
(* routers/airline.py: the key-value routes                                *)

read_airline(fault) ==
    /\ Routed("GET", "/api/v1/airline/{id}")
    /\ Read(AIRLINE_COLLECTION, Airline, "Airline not found", fault)

create_airline(fault) ==
    /\ Routed("POST", "/api/v1/airline/{id}")
    /\ Create(AIRLINE_COLLECTION, Airline, "Airline already exists", fault)

update_airline(fault) ==
    /\ Routed("PUT", "/api/v1/airline/{id}")
    /\ Update(AIRLINE_COLLECTION, Airline, fault)

delete_airline(fault) ==
    /\ Routed("DELETE", "/api/v1/airline/{id}")
    /\ Delete(AIRLINE_COLLECTION, "Airline not found", fault)

(* routers/airport.py: the key-value routes                                *)

read_airport(fault) ==
    /\ Routed("GET", "/api/v1/airport/{id}")
    /\ Read(AIRPORT_COLLECTION, Airport, "Airport not found", fault)

create_airport(fault) ==
    /\ Routed("POST", "/api/v1/airport/{id}")
    /\ Create(AIRPORT_COLLECTION, Airport, "airport already exists", fault)

update_airport(fault) ==
    /\ Routed("PUT", "/api/v1/airport/{id}")
    /\ Update(AIRPORT_COLLECTION, Airport, fault)

delete_airport(fault) ==
    /\ Routed("DELETE", "/api/v1/airport/{id}")
    /\ Delete(AIRPORT_COLLECTION, "Airport not found", fault)

(* routers/route.py                                                        *)

read_route(fault) ==
    /\ Routed("GET", "/api/v1/route/{id}")
    /\ Read(ROUTE_COLLECTION, Route, "Route not found", fault)

create_route(fault) ==
    /\ Routed("POST", "/api/v1/route/{id}")
    /\ Create(ROUTE_COLLECTION, Route, "route already exists", fault)

update_route(fault) ==
    /\ Routed("PUT", "/api/v1/route/{id}")
    /\ Update(ROUTE_COLLECTION, Route, fault)

delete_route(fault) ==
    /\ Routed("DELETE", "/api/v1/route/{id}")
    /\ Delete(ROUTE_COLLECTION, "Route not found", fault)

----------------------------------------------------------------------------
(* The key-value requests the clients send (every body passes the model's  *)
(* validation, so the handler runs).                                       *)

AirlineBodies ==
    {[name |-> Some("Sample Airline"), country |-> Some("United States")],
     [name |-> Some("Sample Airline"), country |-> Some("United States"),
      iata |-> None, icao |-> None, callsign |-> None],
     [name |-> Some("Air France"), iata |-> Some("AF"), icao |-> Some("AFR"),
      callsign |-> Some("AIRFRANS"), country |-> Some("France")]}

AirportBodies ==
    {[airportname |-> Some("Sample airport"), city |-> Some("Sample City"),
      country |-> Some("United Kingdom")],
     [airportname |-> Some("Heathrow"), city |-> Some("London"),
      country |-> Some("United Kingdom"), faa |-> Some("LHR"), icao |-> Some("EGLL"),
      tz |-> Some("Europe/London"),
      geo |-> Some([lat |-> 51, lon |-> 0, alt |-> 83])]}

RouteBodies ==
    {[airline |-> Some("AF"), airlineid |-> Some("airline_10"),
      sourceairport |-> Some("SFO"), destinationairport |-> Some("JFK")],
     [airline |-> Some("XX"), airlineid |-> Some("airline_0"),
      sourceairport |-> Some("CDG"), destinationairport |-> Some("SFO"),
      stops |-> Some(0), equipment |-> Some("320"),
      schedule |-> Some(<<[day |-> 0, flight |-> "AF10", utc |-> "10:05:00"]>>),
      distance |-> Some(4151)]}

KvRequestsOf(entity, ids, bodies) ==
    LET endpoint == "/api/v1/" \o entity \o "/{id}" IN
    {[method |-> m, endpoint |-> endpoint, id |-> id] :
        m \in {"GET", "DELETE"}, id \in ids}
    \cup {[method |-> m, endpoint |-> endpoint, id |-> id, body |-> b] :
        m \in {"POST", "PUT"}, id \in ids, b \in bodies}

KvRequests ==
    KvRequestsOf("airline", AirlineIds, AirlineBodies)
        \cup KvRequestsOf("airport", AirportIds, AirportBodies)
        \cup KvRequestsOf("route", RouteIds, RouteBodies)

----------------------------------------------------------------------------
(* SQL++ queries.  The handlers send one of six fixed statements with      *)
(* named parameters; the store evaluates it over the scope's documents.    *)

airlines_by_country_statement ==
    "SELECT airline.callsign, airline.country, airline.iata, airline.icao, airline.name FROM airline as airline WHERE airline.country=$country ORDER BY airline.name LIMIT $limit OFFSET $offset;"

airlines_statement ==
    "SELECT airline.callsign, airline.country, airline.iata, airline.icao, airline.name FROM airline as airline ORDER BY airline.name LIMIT $limit OFFSET $offset;"

airlines_to_airport_statement ==
    "SELECT air.callsign, air.country, air.iata, air.icao, air.name FROM (SELECT DISTINCT META(airline).id AS airlineId FROM route JOIN airline ON route.airlineid = META(airline).id WHERE route.destinationairport = $airport) AS subquery JOIN airline AS air ON META(air).id = subquery.airlineId ORDER BY air.name LIMIT $limit OFFSET $offset;"

airports_by_country_statement ==
    "SELECT airport.airportname, airport.city, airport.country, airport.faa, airport.geo, airport.icao, airport.tz FROM airport AS airport WHERE airport.country = $country ORDER BY airport.airportname LIMIT $limit OFFSET $offset;"

airports_statement ==
    "SELECT airport.airportname, airport.city, airport.country, airport.faa, airport.geo, airport.icao, airport.tz FROM airport AS airport ORDER BY airport.airportname LIMIT $limit OFFSET $offset;"

direct_connections_statement ==
    "SELECT distinct (route.destinationairport) FROM airport as airport JOIN route as route on route.sourceairport = airport.faa WHERE airport.faa = $airport and route.stops = 0 ORDER BY route.destinationairport LIMIT $limit OFFSET $offset"

\* The store's string order, on the strings the data holds.
Collation ==
    <<"40-Mile Air", "Air France", "British Airways", "CDG", "Charles De Gaulle",
      "Corsairfly", "Heathrow", "JFK", "John F Kennedy Intl", "LHR", "SFO",
      "Sample Airline", "Sample airport", "San Francisco Intl">>

\* A missing or null value sorts before every string.
Rank(value) ==
    IF value = None THEN 0
    ELSE CHOOSE i \in 1..Len(Collation) : Collation[i] = value[1]

FieldOf(obj, f) == IF f \in DOMAIN obj THEN obj[f] ELSE None

KeysIn(st, collection) == {s \in DOMAIN st : s[1] = collection}

\* ORDER BY field: the documents under the given keys, by ascending value.
RECURSIVE OrderBy(_, _, _)
OrderBy(st, slots, field) ==
    IF slots = {} THEN <<>>
    ELSE LET first == CHOOSE s \in slots :
                 \A t \in slots : Rank(FieldOf(st[s], field)) <= Rank(FieldOf(st[t], field))
         IN  <<st[first]>> \o OrderBy(st, slots \ {first}, field)

\* The ascending sequence of a set of values.
RECURSIVE Ascending(_)
Ascending(values) ==
    IF values = {} THEN <<>>
    ELSE LET first == CHOOSE v \in values : \A w \in values : Rank(v) <= Rank(w)
         IN  <<first>> \o Ascending(values \ {first})

\* SELECT f1, f2, ...: a row holds the selected fields the document has.
Select(docs, fields) ==
    [i \in 1..Len(docs) |-> [f \in fields \cap DOMAIN docs[i] |-> docs[i][f]]]

Min(a, b) == IF a <= b THEN a ELSE b

\* OFFSET read as a page number: the rows from offset * limit on.
LimitOffset_pages(rows, limit, offset) ==
    SubSeq(rows, offset * limit + 1, Min(Len(rows), offset * limit + limit))

\* LIMIT limit OFFSET offset
LimitOffset(rows, limit, offset) ==
    SubSeq(rows, offset + 1, Min(Len(rows), offset + limit))

AirlineColumns == {"callsign", "country", "iata", "icao", "name"}
AirportColumns == {"airportname", "city", "country", "faa", "geo", "icao", "tz"}

\* The rows the store answers a statement with.
Rows(st, statement, params) ==
    LET airlines == KeysIn(st, AIRLINE_COLLECTION)
        airports == KeysIn(st, AIRPORT_COLLECTION)
        routes == KeysIn(st, ROUTE_COLLECTION)
    IN
    CASE statement = airlines_by_country_statement ->
           Select(OrderBy(st, {s \in airlines :
                                  /\ params.country # None
                                  /\ FieldOf(st[s], "country") = params.country},
                          "name"),
                  AirlineColumns)
      [] statement = airlines_statement ->
           Select(OrderBy(st, airlines, "name"), AirlineColumns)
      [] statement = airlines_to_airport_statement ->
           Select(OrderBy(st, {a \in airlines :
                                  \E r \in routes :
                                      /\ FieldOf(st[r], "airlineid") = Some(a[2])
                                      /\ FieldOf(st[r], "destinationairport")
                                             = Some(params.airport)},
                          "name"),
                  AirlineColumns)
      [] statement = airports_by_country_statement ->
           Select(OrderBy(st, {s \in airports :
                                  /\ params.country # None
                                  /\ FieldOf(st[s], "country") = params.country},
                          "airportname"),
                  AirportColumns)
      [] statement = airports_statement ->
           Select(OrderBy(st, airports, "airportname"), AirportColumns)
      [] statement = direct_connections_statement ->
           LET dests == {FieldOf(st[r], "destinationairport") : r \in
                            {r \in routes :
                                /\ FieldOf(st[r], "stops") = Some(0)
                                /\ FieldOf(st[r], "sourceairport") = Some(params.airport)
                                /\ \E a \in airports :
                                       FieldOf(st[a], "faa") = Some(params.airport)}}
               ordered == Ascending(dests \ {None})
           IN  [i \in 1..Len(ordered) |-> [destinationairport |-> ordered[i]]]

\* CouchbaseClient.query: scope.query(sql_query, **kwargs), the rows read
query(st, sql_query, kwargs, fault) ==
    IF fault # NoFault THEN Raised(CouchbaseException, fault, st)
    ELSE Returned(LimitOffset(Rows(st, sql_query, kwargs), kwargs.limit, kwargs.offset), st)

----------------------------------------------------------------------------
(* What a handler returns and what the framework makes of it.              *)

DestinationAirport ==
    [fields |-> {"destinationairport"}, required |-> {"destinationairport"}]

\* A list of rows, the tuple (text, 500), an HTTPException object.
ListValue(rows) == [type |-> "list", items |-> rows]
TupleValue(text, code) == [type |-> "tuple", items |-> <<text, code>>]
ExceptionValue(status_code, detail) ==
    [type |-> "HTTPException", status_code |-> status_code, detail |-> detail]

\* serialize_response for response_model=list[model]: the returned value is
\* validated as a list of the model.  A list of rows that hold the required
\* fields passes and is answered with status 200.  Anything else (a tuple of a
\* str and an int, an exception object that was returned and not raised)
\* fails, and the server answers 500 Internal Server Error.
serialize_list(model, value) ==
    IF /\ value.type = "list"
       /\ \A i \in 1..Len(value.items) : IsValid(model, value.items[i])
    THEN JSONResponse(200, [i \in 1..Len(value.items) |->
                                Validate(model, value.items[i])])
    ELSE InternalServerError

\* `param or default`: a given 0 is replaced by the default as well.
QueryDefault_falsy(param, default) ==
    IF param = None \/ param = Some(0) THEN default ELSE param[1]

\* Query(default): the parameter's value, or the default when it is not given.
QueryDefault(param, default) == IF param = None THEN default ELSE param[1]

\* `if country:` is false for None and for the empty string.
Truthy(text) == text # None /\ text # Some("")

----------------------------------------------------------------------------
(* The list and query routes.                                              *)

\* A list handler that writes the country into the statement's text.
List_inline(model, by_country, all, fault) ==
    LET country == request.country
        statement == IF Truthy(country)
                     THEN all \o " /* WHERE country = '" \o country[1] \o "' */"
                     ELSE all
        kwargs == [country |-> country,
                   limit |-> QueryDefault(request.limit, 10),
                   offset |-> QueryDefault(request.offset, 0)]
        r == query(store, IF Truthy(country) THEN by_country ELSE all, kwargs, fault)
    IN  /\ storeCalls' = <<Call("query", <<statement, kwargs>>, r)>>
        /\ response' = IF r.exc = NoExc
                       THEN serialize_list(model, ListValue(r.value))
                       ELSE serialize_list(model, TupleValue(UnexpectedError(r.msg), 500))
        /\ UNCHANGED <<store, lastWrite, request, process, db>>

\* try: result = db.query(query, country=..., limit=..., offset=...)
\*      return [r for r in result]
\* except Exception as e: return f"Unexpected error: {e}", 500
List(model, by_country, all, fault) ==
    LET country == request.country
        statement == IF Truthy(country) THEN by_country ELSE all
        kwargs == [country |-> country,
                   limit |-> QueryDefault(request.limit, 10),
                   offset |-> QueryDefault(request.offset, 0)]
        r == query(store, statement, kwargs, fault)
    IN  /\ storeCalls' = <<Call("query", <<statement, kwargs>>, r)>>
        /\ response' = IF r.exc = NoExc
                       THEN serialize_list(model, ListValue(r.value))
                       ELSE serialize_list(model, TupleValue(UnexpectedError(r.msg), 500))
        /\ UNCHANGED <<store, lastWrite, request, process, db>>

\* try: result = db.query(query, airport=..., limit=..., offset=...)
\*      return [r for r in result]
\* except Exception as e: return HTTPException(500, f"Unexpected error: {e}")
ByAirport(model, statement, fault) ==
    LET kwargs == [airport |-> request.airport,
                   limit |-> QueryDefault(request.limit, 10),
                   offset |-> QueryDefault(request.offset, 0)]
        r == query(store, statement, kwargs, fault)
    IN  /\ storeCalls' = <<Call("query", <<statement, kwargs>>, r)>>
        /\ response' = IF r.exc = NoExc
                       THEN serialize_list(model, ListValue(r.value))
                       ELSE serialize_list(model,
                                ExceptionValue(500, UnexpectedError(r.msg)))
        /\ UNCHANGED <<store, lastWrite, request, process, db>>

get_airlines_list(fault) ==
    /\ Routed("GET", "/api/v1/airline/list")
    /\ List(Airline, airlines_by_country_statement, airlines_statement, fault)

get_airlines_to_airport(fault) ==
    /\ Routed("GET", "/api/v1/airline/to-airport")
    /\ ByAirport(Airline, airlines_to_airport_statement, fault)

get_airports_list(fault) ==
    /\ Routed("GET", "/api/v1/airport/list")
    /\ List(Airport, airports_by_country_statement, airports_statement, fault)

get_airport_direct_connections(fault) ==
    /\ Routed("GET", "/api/v1/airport/direct-connections")
    /\ ByAirport(DestinationAirport, direct_connections_statement, fault)

\* The page parameters the clients send: not given, or 0 .. MaxPage.
MaxPage == 2
PageParams == {None} \cup {Some(n) : n \in 0..MaxPage}
Countries == {None, Some(""), Some("France"), Some("United States")}
AirportCodes == {"CDG", "JFK", "SFO", "LHR"}

QueryRequests ==
    {[method |-> "GET", endpoint |-> e, country |-> c, limit |-> l, offset |-> o] :
        e \in {"/api/v1/airline/list", "/api/v1/airport/list"},
        c \in Countries, l \in PageParams, o \in PageParams}
    \cup {[method |-> "GET", endpoint |-> e, airport |-> a, limit |-> l, offset |-> o] :
        e \in {"/api/v1/airline/to-airport", "/api/v1/airport/direct-connections"},
        a \in AirportCodes, l \in PageParams, o \in PageParams}

----------------------------------------------------------------------------
(* Full-text search (routers/hotel.py and the two search methods of the    *)
(* client).  What the index answers is up to the store: an outcome is the  *)
(* rows it would produce and whether and where the search raises, at the   *)
(* call itself or while the rows are read, after `after` rows.             *)

Hotel ==
    [fields |-> {"city", "country", "description", "name", "state", "title"},
     required |-> {}]

HotelName == [fields |-> {"name"}, required |-> {"name"}]

index_name == "hotel_search"

MatchQuery(match, field) == [type |-> "match", field |-> field, value |-> match]
TermQuery(term, field) == [type |-> "term", field |-> field, value |-> term]
ConjunctionQuery(queries) == [type |-> "conjunction", conjuncts |-> queries]
SearchOptions(fields, limit, skip) == [fields |-> fields, limit |-> limit, skip |-> skip]

SearchCall(search_query, options, outcome) ==
    [op |-> "search",
     args |-> [index |-> index_name, query |-> search_query, options |-> options],
     exc |-> IF outcome.raises = "never" THEN NoExc ELSE CouchbaseException,
     msg |-> IF outcome.raises = "never" THEN "" ELSE outcome.msg,
     rows |-> outcome.rows,
     raised |-> outcome.raises]

\* The rows the loop has read when it ends: all of them, or those before the
\* failure.
RowsRead(outcome) ==
    IF outcome.raises = "rows" THEN SubSeq(outcome.rows, 1, outcome.after)
    ELSE outcome.rows

\* `return names` / `return hotels` when the assignment was never reached.
UnboundLocalError(name) ==
    "cannot access local variable '" \o name
        \o "' where it is not associated with a value"

SearchResult(value, calls) == [exc |-> NoExc, msg |-> "", value |-> value, calls |-> calls]
SearchRaised(exc, msg, calls) == [exc |-> exc, msg |-> msg, value |-> None, calls |-> calls]

\* The names without repetitions: the first occurrence of each is kept.
RECURSIVE Unique(_)
Unique(names) ==
    IF names = <<>> THEN <<>>
    ELSE LET init == SubSeq(names, 1, Len(names) - 1)
             last == names[Len(names)]
         IN  IF \E i \in 1..Len(init) : init[i] = last
             THEN Unique(init) ELSE Append(Unique(init), last)

\* search_by_name that drops the names it has already collected.
search_by_name_unique(name, outcome) ==
    LET searchQuery == MatchQuery(name, "name")
        calls == <<SearchCall(searchQuery, SearchOptions(<<"name">>, 50, None), outcome)>>
        read == RowsRead(outcome)
        names == [i \in 1..Len(read) |->
                     IF "name" \in DOMAIN read[i] THEN read[i]["name"] ELSE Some("")]
    IN  IF outcome.raises = "call"
        THEN SearchRaised("UnboundLocalError", UnboundLocalError("names"), calls)
        ELSE SearchResult(Unique(names), calls)

\* CouchbaseClient.search_by_name
search_by_name(name, outcome) ==
    LET searchQuery == MatchQuery(name, "name")
        calls == <<SearchCall(searchQuery, SearchOptions(<<"name">>, 50, None), outcome)>>
        read == RowsRead(outcome)
        names == [i \in 1..Len(read) |->
                     IF "name" \in DOMAIN read[i] THEN read[i]["name"] ELSE Some("")]
    IN  IF outcome.raises = "call"
        THEN SearchRaised("UnboundLocalError", UnboundLocalError("names"), calls)
        ELSE SearchResult(names, calls)

match_query_terms == <<"description", "name", "title">>
term_query_terms == <<"city", "country", "state">>

\* [Query(filter[t], field=t) for t in terms if t in filter]
RECURSIVE Present(_, _)
Present(terms, filter) ==
    IF terms = <<>> THEN <<>>
    ELSE (IF Head(terms) \in DOMAIN filter THEN <<Head(terms)>> ELSE <<>>)
             \o Present(Tail(terms), filter)

\* Every present field as a match query, the exact-term fields included.
Conjuncts_all_match(filter) ==
    LET terms == Present(match_query_terms \o term_query_terms, filter)
    IN  [i \in 1..Len(terms) |-> MatchQuery(filter[terms[i]], terms[i])]

Conjuncts(filter) ==
    LET matched == Present(match_query_terms, filter)
        termed == Present(term_query_terms, filter)
    IN  [i \in 1..Len(matched) |-> MatchQuery(filter[matched[i]], matched[i])]
            \o [i \in 1..Len(termed) |-> TermQuery(filter[termed[i]], termed[i])]

\* filter with its result list assigned before the try: a search that raises
\* leaves it empty.
filter_returns_empty(filter_, limit, offset, outcome) ==
    LET conjuncts == Conjuncts(filter_)
        options == SearchOptions(<<"*">>, limit, offset)
        calls == <<SearchCall(ConjunctionQuery(conjuncts), options, outcome)>>
        hotels == RowsRead(outcome)
    IN  IF conjuncts = <<>> THEN SearchResult(<<>>, <<>>)
        ELSE IF outcome.raises = "call" THEN SearchResult(<<>>, calls)
        ELSE SearchResult(hotels, calls)

\* filter without the early return for an empty list of conjuncts.
filter_always_searches(filter_, limit, offset, outcome) ==
    LET conjuncts == Conjuncts(filter_)
        options == SearchOptions(<<"*">>, limit, offset)
        calls == <<SearchCall(ConjunctionQuery(conjuncts), options, outcome)>>
        hotels == RowsRead(outcome)
    IN  IF outcome.raises = "call"
        THEN SearchRaised("UnboundLocalError", UnboundLocalError("hotels"), calls)
        ELSE SearchResult(hotels, calls)

\* CouchbaseClient.filter
filter(filter_, limit, offset, outcome) ==
    LET conjuncts == Conjuncts(filter_)
        options == SearchOptions(<<"*">>, limit, offset)
        calls == <<SearchCall(ConjunctionQuery(conjuncts), options, outcome)>>
        hotels == RowsRead(outcome)
    IN  IF conjuncts = <<>> THEN SearchResult(<<>>, <<>>)
        ELSE IF outcome.raises = "call"
        THEN SearchRaised("UnboundLocalError", UnboundLocalError("hotels"), calls)
        ELSE SearchResult(hotels, calls)

\* BaseModel.model_dump(exclude_none=True)
model_dump_exclude_none(obj) ==
    [f \in {g \in DOMAIN obj : obj[g] # None} |-> obj[f]]

\* try: result = db.search_by_name(name)
\*      return [{"name": name} for name in result]
\* except Exception as e: raise HTTPException(500, f"Unexpected error: {e}")
hotel_autocomplete(outcome) ==
    /\ Routed("GET", "/api/v1/hotel/autocomplete")
    /\ LET r == search_by_name(request.name, outcome) IN
       /\ storeCalls' = r.calls
       /\ response' =
              IF r.exc = NoExc
              THEN serialize_list(HotelName,
                       ListValue([i \in 1..Len(r.value) |-> [name |-> r.value[i]]]))
              ELSE HTTPException(500, UnexpectedError(r.msg))
       /\ UNCHANGED <<store, lastWrite, request, process, db>>

\* try: hotels = db.filter(hotel.model_dump(exclude_none=True), limit=limit, offset=offset)
\*      return hotels
\* except Exception as e: raise HTTPException(500, f"Unexpected error: {e}")
\* The body is optional: without one, hotel is None and hotel.model_dump raises
\* AttributeError inside the try.
hotel_filter(outcome) ==
    /\ Routed("POST", "/api/v1/hotel/filter")
    /\ LET limit == QueryDefault(request.limit, 10)
           offset == QueryDefault(request.offset, 0)
           r == IF request.hotel = None
                THEN SearchRaised("AttributeError",
                         "'NoneType' object has no attribute 'model_dump'", <<>>)
                ELSE filter(model_dump_exclude_none(Validate(Hotel, request.hotel[1])),
                            limit, offset, outcome)
       IN
       /\ storeCalls' = r.calls
       /\ response' =
              IF r.exc = NoExc
              THEN serialize_list(Hotel, ListValue(r.value))
              ELSE HTTPException(500, UnexpectedError(r.msg))
       /\ UNCHANGED <<store, lastWrite, request, process, db>>

\* What the clients send to the hotel routes.
SampleValue ==
    [description |-> "newly renovated", name |-> "Inn", title |-> "Monument",
     city |-> "Paris", country |-> "France", state |-> "California"]

\* Every subset of the six fields with a value each, and bodies with nulls.
HotelBodies ==
    {[t \in present |-> Some(SampleValue[t])] : present \in SUBSET Hotel.fields}
    \cup {[t \in Hotel.fields |-> None],
          [city |-> None, name |-> Some("Seal View")],
          [city |-> Some("Santa Margarita"), state |-> None]}

\* limit and offset: not given, or any integer: negative, zero, small, very large.
MaxSkip == 1
VeryLarge == 2000000000
IntParams == {None} \cup {Some(n) : n \in (-1..MaxSkip) \cup {VeryLarge}}

HotelRequests ==
    {[method |-> "POST", endpoint |-> "/api/v1/hotel/filter",
      hotel |-> h, limit |-> l, offset |-> o] :
        h \in {None} \cup {Some(b) : b \in HotelBodies},
        l \in IntParams, o \in IntParams}
    \cup {[method |-> "GET", endpoint |-> "/api/v1/hotel/autocomplete", name |-> n] :
        n \in {"Seal View", "KCL"}}

\* What the index may answer.
HotelRows ==
    {[name |-> Some("Seal View"), city |-> Some("Paris"), country |-> Some("France"),
      description |-> Some("newly renovated"), title |-> Some("Monument")],
     [city |-> Some("Santa Margarita"), state |-> Some("California")]}

MaxRows == 2

RECURSIVE SeqsUpTo(_, _)
SeqsUpTo(S, n) ==
    IF n = 0 THEN {<<>>}
    ELSE LET shorter == SeqsUpTo(S, n - 1) IN
         shorter \cup {Append(s, x) : s \in {t \in shorter : Len(t) = n - 1}, x \in S}

SearchOutcomes ==
    {[rows |-> rows, raises |-> "never", after |-> 0, msg |-> ""] :
        rows \in SeqsUpTo(HotelRows, MaxRows)}
    \cup {[rows |-> <<>>, raises |-> "call", after |-> 0, msg |-> f] : f \in Faults}
    \cup UNION {{[rows |-> rows, raises |-> "rows", after |-> k, msg |-> f] :
                    k \in 0..Len(rows), f \in Faults} :
                rows \in SeqsUpTo(HotelRows, MaxRows)}

----------------------------------------------------------------------------
(* The process (db.py: CouchbaseClient.__init__, connect, close, get_db;   *)
(* main.py: lifespan).  A client object is a record of its fields; its     *)
(* identity is its index in `clients`.  What the cluster answers to one    *)
(* run of connect is an input: the cluster is ready; it is ready but the   *)
(* inventory scope is missing; it is ready but the index cannot be         *)
(* upserted; Cluster(...) connects but wait_until_ready times out; or      *)
(* Cluster(...) itself fails.                                              *)

ConnectOutcomes == {"ready", "scope_missing", "index_fails", "not_ready", "connect_fails"}

Configured ==
    [DB_CONN_STR |-> Some("couchbase://localhost"),
     DB_USERNAME |-> Some("Administrator"),
     DB_PASSWORD |-> Some("password")]

Unconfigured == [DB_CONN_STR |-> None, DB_USERNAME |-> None, DB_PASSWORD |-> None]

Environs == {Configured, Unconfigured, [Configured EXCEPT !.DB_PASSWORD = None]}

\* CouchbaseClient.__init__, up to the call of connect
Fields(conn_str, username, password) ==
    [cluster |-> None, bucket |-> None, scope |-> None,
     conn_str |-> conn_str, username |-> username, password |-> password,
     index_name |-> index_name, bucket_name |-> "travel-sample",
     scope_name |-> "inventory"]

\* Without a connection string, a user name or a password no cluster is
\* reached, whatever state the cluster is in.
Reached(self, outcome) ==
    IF self.conn_str = None \/ self.username = None \/ self.password = None
    THEN "connect_fails" ELSE outcome

\* CouchbaseClient.check_scope_exists: True or False; None when fetching the
\* scopes raised (with bucket None it always does), the error being printed.
check_scope_exists(self, outcome) ==
    IF self.bucket = None THEN None ELSE Some(outcome # "scope_missing")

\* CouchbaseClient.create_search_index: every error is caught and printed.
create_search_index(self, outcome) ==
    IF outcome \in {"scope_missing", "index_fails"}
    THEN "Error upserting index '" \o self.index_name \o "'"
    ELSE "Index '" \o self.index_name \o "' created or updated successfully."

\* CouchbaseClient.connect.  `handle` names the connection Cluster(...) opens.
\* A CouchbaseException of Cluster(...), wait_until_ready or bucket(...) is
\* caught and printed; self.bucket is then still None, and
\* self.bucket.scope(...) after the try raises AttributeError.
connect(self, outcome, handle) ==
    IF self.cluster # None
    THEN [self |-> self, exc |-> NoExc, msg |-> "", log |-> <<>>]
    ELSE
    LET cluster == IF Reached(self, outcome) = "connect_fails" THEN None ELSE Some(handle)
        bucket == IF Reached(self, outcome) \in {"connect_fails", "not_ready"}
                  THEN None ELSE Some(self.bucket_name)
        tried == [self EXCEPT !.cluster = cluster, !.bucket = bucket]
        warned == <<"connecting to db">>
                      \o (IF bucket = None
                          THEN <<"Could not connect to cluster.",
                                 "WARNING: Ensure that you have the travel-sample bucket loaded in the cluster.",
                                 "Error fetching scopes in cluster.">>
                          ELSE <<>>)
                      \o (IF check_scope_exists(tried, Reached(self, outcome)) # Some(TRUE)
                          THEN <<"WARNING: Inventory scope does not exist in the bucket.">>
                          ELSE <<>>)
    IN  IF bucket = None
        THEN [self |-> tried, exc |-> "AttributeError",
              msg |-> "'NoneType' object has no attribute 'scope'", log |-> warned]
        ELSE [self |-> [tried EXCEPT !.scope = Some(self.scope_name)],
              exc |-> NoExc, msg |-> "",
              log |-> Append(warned, create_search_index(tried, Reached(self, outcome)))]

\* CouchbaseClient(conn_str, username, password): __init__ ends with connect.
CouchbaseClient(conn_str, username, password, outcome, handle) ==
    connect(Fields(conn_str, username, password), outcome, handle)

\* The connections opened so far: the runs of connect in which Cluster(...)
\* returned a cluster.
Opened == {i \in 1..Len(bootstraps) : bootstraps[i].opened}

\* A construction as the process records it: the object joins `clients` when
\* __init__ returned, and the run of connect joins the history.
Constructed(by, r) ==
    [exc |-> r.exc, msg |-> r.msg,
     value |-> IF r.exc = NoExc THEN Len(clients) + 1 ELSE 0,
     clients |-> IF r.exc = NoExc THEN Append(clients, r.self) ELSE clients,
     bootstraps |-> Append(bootstraps,
                        [by |-> by, exc |-> r.exc, opened |-> r.self.cluster # None,
                         conn_str |-> r.self.conn_str, log |-> r.log])]

\* get_db without functools.cache: every call constructs a client.
get_db_uncached(outcome) ==
    LET r == CouchbaseClient(environ.DB_CONN_STR, environ.DB_USERNAME,
                             environ.DB_PASSWORD, outcome, Cardinality(Opened) + 1)
        made == Constructed("get_db", r)
    IN  [exc |-> made.exc, msg |-> made.msg, value |-> made.value,
         cache |-> IF made.exc = NoExc /\ cache = None THEN Some(made.value) ELSE cache,
         clients |-> made.clients, bootstraps |-> made.bootstraps]

\* get_db, under functools.cache: the first call that returns stores its
\* client, and every later call returns that client without running the
\* body.  A call that raises stores nothing.
get_db(outcome) ==
    IF cache # None
    THEN [exc |-> NoExc, msg |-> "", value |-> cache[1], cache |-> cache,
          clients |-> clients, bootstraps |-> bootstraps]
    ELSE LET r == CouchbaseClient(environ.DB_CONN_STR, environ.DB_USERNAME,
                                  environ.DB_PASSWORD, outcome, Cardinality(Opened) + 1)
             made == Constructed("get_db", r)
         IN  [exc |-> made.exc, msg |-> made.msg, value |-> made.value,
              cache |-> IF made.exc = NoExc THEN Some(made.value) ELSE cache,
              clients |-> made.clients, bootstraps |-> made.bootstraps]

CloseOutcomes == {"closed", "raises"}

\* close that lets the error of cluster.close() out.
close_propagates(self, outcome) ==
    IF self.cluster # None
    THEN [cluster_closed |-> TRUE,
          exc |-> IF outcome = "raises" THEN CouchbaseException ELSE NoExc,
          log |-> <<>>]
    ELSE [cluster_closed |-> FALSE, exc |-> NoExc, log |-> <<>>]

\* CouchbaseClient.close: cluster.close() when a cluster was set; its error
\* is caught and printed.
close(self, outcome) ==
    IF self.cluster # None
    THEN [cluster_closed |-> TRUE, exc |-> NoExc,
          log |-> IF outcome = "raises" THEN <<"Error closing cluster.">> ELSE <<>>]
    ELSE [cluster_closed |-> FALSE, exc |-> NoExc, log |-> <<>>]

\* lifespan, up to its yield: db = get_db().  When get_db raises, the startup
\* fails and the server does not serve.
lifespan_startup(outcome) ==
    /\ lifespan = "pending"
    /\ LET g == get_db(outcome) IN
       /\ cache' = g.cache
       /\ clients' = g.clients
       /\ bootstraps' = g.bootstraps
       /\ lifespan' = IF g.exc = NoExc THEN "started" ELSE "failed"
    /\ UNCHANGED <<store, lastWrite, request, response, storeCalls, environ, closes, db,
                   threadpool>>

\* lifespan, after its yield: db.close(), on the client get_db returned at
\* startup.  The server shuts down once no request is in flight.
lifespan_shutdown(outcome) ==
    /\ lifespan = "started"
    /\ request = NoRequest
    /\ threadpool = <<>>
    /\ LET c == close(clients[cache[1]], outcome) IN
       /\ closes' = Append(closes, [client |-> cache[1],
                                    cluster_closed |-> c.cluster_closed,
                                    exc |-> c.exc, log |-> c.log])
       /\ lifespan' = IF c.exc = NoExc THEN "closed" ELSE "shutdown_failed"
    /\ UNCHANGED <<store, lastWrite, request, response, storeCalls, environ, cache,
                   clients, bootstraps, db, threadpool>>

NoDb == None

\* The routes whose handlers declare db=Depends(get_db): all of them.
\* airline.py names the dependency get_db; airport.py, route.py and hotel.py
\* import the same function under the name CouchbaseClient.
DependsOnGetDb ==
    {"/api/v1/airline/{id}", "/api/v1/airline/list", "/api/v1/airline/to-airport",
     "/api/v1/airport/{id}", "/api/v1/airport/list", "/api/v1/airport/direct-connections",
     "/api/v1/route/{id}", "/api/v1/hotel/autocomplete", "/api/v1/hotel/filter"}

\* db=Depends(get_db): get_db() is called for the request.  When it raises,
\* the handler is not called and the server answers 500.
Depends_get_db(outcome) ==
    /\ request.endpoint \in DependsOnGetDb
    /\ response = Pending
    /\ db = NoDb
    /\ LET g == get_db(outcome) IN
       /\ cache' = g.cache
       /\ clients' = g.clients
       /\ bootstraps' = g.bootstraps
       /\ db' = IF g.exc = NoExc THEN Some(g.value) ELSE NoDb
       /\ response' = IF g.exc = NoExc THEN response ELSE InternalServerError
    /\ UNCHANGED <<store, lastWrite, request, storeCalls, lifespan, environ, closes,
                   threadpool>>

----------------------------------------------------------------------------
(* The server.                                                             *)

Init ==
    /\ store = TravelSample
    /\ lastWrite = <<>>
    /\ request = NoRequest
    /\ response = Pending
    /\ storeCalls = <<>>
    /\ lifespan = "started"
    /\ environ = Configured
    /\ LET r == CouchbaseClient(Configured.DB_CONN_STR, Configured.DB_USERNAME,
                                Configured.DB_PASSWORD, "ready", 1)
       IN  /\ clients = <<r.self>>
           /\ bootstraps = <<[by |-> "get_db", exc |-> r.exc, opened |-> TRUE,
                              conn_str |-> r.self.conn_str, log |-> r.log]>>
    /\ cache = Some(1)
    /\ closes = <<>>
    /\ db = NoDb
    /\ threadpool = <<>>

\* A request arrives while none is in flight.  The server takes requests
\* once the startup has completed and until it shuts down.
Receive(requests) ==
    /\ request = NoRequest
    /\ lifespan = "started"
    /\ request' \in requests
    /\ UNCHANGED <<store, lastWrite, response, storeCalls, process, db>>

\* The response is sent.
Send ==
    /\ response # Pending
    /\ request' = NoRequest
    /\ response' = Pending
    /\ storeCalls' = <<>>
    /\ db' = NoDb
    /\ UNCHANGED <<store, lastWrite, process>>

\* The bound on the workers that wait while another runs.
MaxWaiting == 1

\* The exchange of the running worker.
Running == [request |-> request, response |-> response, storeCalls |-> storeCalls, db |-> db]

\* The running worker is preempted with its exchange where it stands: the
\* request received, the response it has or has not yet, not sent.
Preempt ==
    /\ request # NoRequest
    /\ Len(threadpool) < MaxWaiting
    /\ threadpool' = Append(threadpool, Running)
    /\ request' = NoRequest
    /\ response' = Pending
    /\ storeCalls' = <<>>
    /\ db' = NoDb
    /\ UNCHANGED <<store, lastWrite, lifespan, environ, cache, clients, bootstraps, closes>>

\* A waiting worker runs again, once the running one has sent its response or
\* has been preempted.
Resume(w) ==
    /\ request = NoRequest
    /\ w \in 1..Len(threadpool)
    /\ request' = threadpool[w].request
    /\ response' = threadpool[w].response
    /\ storeCalls' = threadpool[w].storeCalls
    /\ db' = threadpool[w].db
    /\ threadpool' = [i \in 1..(Len(threadpool) - 1) |->
                          IF i < w THEN threadpool[i] ELSE threadpool[i + 1]]
    /\ UNCHANGED <<store, lastWrite, lifespan, environ, cache, clients, bootstraps, closes>>

FaultInputs == Faults \cup {NoFault}

\* The key-value routes.
Next ==
    \/ Receive(KvRequests)
    \/ \E f \in FaultInputs : read_airline(f)
    \/ \E f \in FaultInputs : create_airline(f)
    \/ \E f \in FaultInputs : update_airline(f)
    \/ \E f \in FaultInputs : delete_airline(f)
    \/ \E f \in FaultInputs : read_airport(f)
    \/ \E f \in FaultInputs : create_airport(f)
    \/ \E f \in FaultInputs : update_airport(f)
    \/ \E f \in FaultInputs : delete_airport(f)
    \/ \E f \in FaultInputs : read_route(f)
    \/ \E f \in FaultInputs : create_route(f)
    \/ \E f \in FaultInputs : update_route(f)
    \/ \E f \in FaultInputs : delete_route(f)
    \/ Send

Spec == Init /\ [][Next]_vars

\* The list and query routes, over the travel-sample data.
QueryNext ==
    \/ Receive(QueryRequests)
    \/ \E f \in FaultInputs : get_airlines_list(f)
    \/ \E f \in FaultInputs : get_airlines_to_airport(f)
    \/ \E f \in FaultInputs : get_airports_list(f)
    \/ \E f \in FaultInputs : get_airport_direct_connections(f)
    \/ Send

QuerySpec == Init /\ [][QueryNext]_vars

\* The hotel search routes.
HotelNext ==
    \/ Receive(HotelRequests)
    \/ \E o \in SearchOutcomes : hotel_autocomplete(o)
    \/ \E o \in SearchOutcomes : hotel_filter(o)
    \/ Send

HotelSpec == Init /\ [][HotelNext]_vars

\* The key-value routes together with the list, query and search routes, the
\* latter three with the default page.
ApiQueryRequests ==
    {q \in QueryRequests : q.limit = None /\ q.offset = None}

ApiHotelRequests ==
    {h \in HotelRequests :
        h.endpoint = "/api/v1/hotel/filter" =>
            /\ h.limit = None /\ h.offset = None
            /\ h.hotel \in {None, Some([t \in Hotel.fields |-> None]),
                             Some([city |-> None, name |-> Some("Seal View")])}}

\* What the index answers where the search routes run beside the others: no
\* row or one, read or failing.
FewSearchOutcomes == {o \in SearchOutcomes : Len(o.rows) <= 1}

ApiNext ==
    \/ Receive(KvRequests \cup ApiQueryRequests \cup ApiHotelRequests)
    \/ \E f \in FaultInputs : read_airline(f)
    \/ \E f \in FaultInputs : create_airline(f)
    \/ \E f \in FaultInputs : update_airline(f)
    \/ \E f \in FaultInputs : delete_airline(f)
    \/ \E f \in FaultInputs : read_airport(f)
    \/ \E f \in FaultInputs : create_airport(f)
    \/ \E f \in FaultInputs : update_airport(f)
    \/ \E f \in FaultInputs : delete_airport(f)
    \/ \E f \in FaultInputs : read_route(f)
    \/ \E f \in FaultInputs : create_route(f)
    \/ \E f \in FaultInputs : update_route(f)
    \/ \E f \in FaultInputs : delete_route(f)
    \/ \E f \in FaultInputs : get_airlines_list(f)
    \/ \E f \in FaultInputs : get_airlines_to_airport(f)
    \/ \E f \in FaultInputs : get_airports_list(f)
    \/ \E f \in FaultInputs : get_airport_direct_connections(f)
    \/ \E o \in FewSearchOutcomes : hotel_autocomplete(o)
    \/ \E o \in FewSearchOutcomes : hotel_filter(o)
    \/ Send

ApiSpec == Init /\ [][ApiNext]_vars

\* The airline key-value routes with several requests in flight at once, all
\* for one key that the travel-sample data does not hold.
PoolRequests == KvRequestsOf("airline", {"airline_0"}, AirlineBodies)

PoolNext ==
    \/ Receive(PoolRequests)
    \/ \E f \in FaultInputs : read_airline(f)
    \/ \E f \in FaultInputs : create_airline(f)
    \/ \E f \in FaultInputs : update_airline(f)
    \/ \E f \in FaultInputs : delete_airline(f)
    \/ Preempt
    \/ \E w \in 1..MaxWaiting : Resume(w)
    \/ Send

PoolSpec == Init /\ [][PoolNext]_vars

\* The application from the start of its process: the lifespan, the
\* dependencies of the requests, and one reading route of each kind.
AppInit ==
    /\ store = TravelSample
    /\ lastWrite = <<>>
    /\ request = NoRequest
    /\ response = Pending
    /\ storeCalls = <<>>
    /\ lifespan = "pending"
    /\ environ \in Environs
    /\ cache = None
    /\ clients = <<>>
    /\ bootstraps = <<>>
    /\ closes = <<>>
    /\ db = NoDb
    /\ threadpool = <<>>

AppRequests ==
    {[method |-> "GET", endpoint |-> "/api/v1/airline/{id}", id |-> i] : i \in AirlineIds}
    \cup {[method |-> "GET", endpoint |-> "/api/v1/airline/list",
            country |-> c, limit |-> None, offset |-> None] : c \in {None, Some("France")}}
    \cup {[method |-> "GET", endpoint |-> "/api/v1/airport/{id}", id |-> EXAMPLE_AIRPORT_ID],
          [method |-> "GET", endpoint |-> "/api/v1/route/{id}", id |-> EXAMPLE_ROUTE_ID],
          [method |-> "GET", endpoint |-> "/api/v1/hotel/autocomplete", name |-> "KCL"]}

AppNext ==
    \/ \E o \in ConnectOutcomes : lifespan_startup(o)
    \/ Receive(AppRequests)
    \/ \E o \in ConnectOutcomes : Depends_get_db(o)
    \/ \E f \in FaultInputs : db # NoDb /\ read_airline(f)
    \/ \E f \in FaultInputs : db # NoDb /\ get_airlines_list(f)
    \/ \E f \in FaultInputs : db # NoDb /\ read_airport(f)
    \/ \E f \in FaultInputs : db # NoDb /\ read_route(f)
    \/ \E o \in FewSearchOutcomes : db # NoDb /\ hotel_autocomplete(o)
    \/ Preempt
    \/ \E w \in 1..MaxWaiting : Resume(w)
    \/ Send
    \/ \E o \in CloseOutcomes : lifespan_shutdown(o)

AppSpec == AppInit /\ [][AppNext]_vars

----------------------------------------------------------------------------
(* Reading an exchange.  A handler step takes the state in which a request *)
(* is in flight (response = Pending) to the state that holds its response; *)
(* the request is the same in both.                                        *)

KvEndpoints ==
    {"/api/v1/airline/{id}", "/api/v1/airport/{id}", "/api/v1/route/{id}"}

CollectionOf(endpoint) ==
    CASE endpoint = "/api/v1/airline/{id}" -> AIRLINE_COLLECTION
      [] endpoint = "/api/v1/airport/{id}" -> AIRPORT_COLLECTION
      [] endpoint = "/api/v1/route/{id}" -> ROUTE_COLLECTION

SlotOf(req) == <<CollectionOf(req.endpoint), req.id>>

\* A store call that failed for a reason other than not-found or already-exists.
Failed(call) ==
    call.exc \notin {NoExc, DocumentNotFoundException, DocumentExistsException}

\* The state holds the response to a key-value request with this method, whose
\* store call the store served.
Served(method) ==
    /\ request.method = method
    /\ request.endpoint \in KvEndpoints
    /\ response # Pending
    /\ \A i \in 1..Len(storeCalls) : ~Failed(storeCalls[i])

\* The step is the handler's, for a key-value request with this method.
Serves(method) == response = Pending /\ Served(method)'

\* Equality of records of one model: field by field, an optional field that is
\* missing being the same as one that is null.
SameRecord(a, b) ==
    \A f \in DOMAIN a \cup DOMAIN b : FieldOf(a, f) = FieldOf(b, f)

LastWriteIs(slot, verb) ==
    slot \in DOMAIN lastWrite /\ lastWrite[slot].verb = verb

----------------------------------------------------------------------------
(* C1: in every collection, a POST of record r to a key that holds no      *)
(* document answers 201, and a GET of that key that follows it with no     *)
(* write to the key in between answers 200 with a record equal to r.       *)
C1_CreateThenRead ==
    /\ [][(Serves("POST") /\ SlotOf(request) \notin DOMAIN store)
              => response'.status = 201]_vars
    /\ [][(Serves("GET") /\ LastWriteIs(SlotOf(request), "POST"))
              => /\ response'.status = 200
                 /\ SameRecord(response'.body, lastWrite[SlotOf(request)].body)]_vars

C1_Witness ==
    /\ Served("GET")
    /\ LastWriteIs(SlotOf(request), "POST")
    /\ response.status = 200
    /\ DOMAIN lastWrite[SlotOf(request)].body # DOMAIN response.body

(* C2: a POST to a key that already holds a document answers 409; two      *)
(* successive POSTs to one key with no delete in between answer 201, 409.  *)
C2_CreateTwiceConflicts ==
    /\ [][(Serves("POST") /\ SlotOf(request) \in DOMAIN store)
              => response'.status = 409]_vars
    /\ [][(Serves("POST") /\ LastWriteIs(SlotOf(request), "POST"))
              => response'.status = 409]_vars

C2_Witness ==
    /\ Served("POST")
    /\ LastWriteIs(SlotOf(request), "POST")
    /\ response.status = 409

(* C3: a DELETE of a key that holds a document answers 204, and a GET of   *)
(* that key that follows it with no create or update of the key in between *)
(* answers 404.                                                            *)
C3_DeleteThenRead ==
    /\ [][(Serves("DELETE") /\ SlotOf(request) \in DOMAIN store)
              => response'.status = 204]_vars
    /\ [][(Serves("GET") /\ LastWriteIs(SlotOf(request), "DELETE"))
              => response'.status = 404]_vars

C3_Witness ==
    /\ Served("GET")
    /\ LastWriteIs(SlotOf(request), "DELETE")
    /\ response.status = 404

(* C4: a PUT of record r answers 200 whether or not the key held a         *)
(* document, and a GET that follows returns exactly r: every field of the  *)
(* model has r's value, or null where r has none, so nothing of the        *)
(* previous document survives.                                             *)
C4_PutUpserts ==
    /\ [][Serves("PUT") => response'.status = 200]_vars
    /\ [][(Serves("GET") /\ LastWriteIs(SlotOf(request), "PUT"))
              => /\ response'.status = 200
                 /\ SameRecord(response'.body, lastWrite[SlotOf(request)].body)]_vars

\* A GET after a PUT over the travel-sample airline (which has an iata code)
\* shows none of the optional fields the PUT left out.
C4_Witness ==
    /\ Served("GET")
    /\ SlotOf(request) = <<AIRLINE_COLLECTION, EXAMPLE_AIRLINE_ID>>
    /\ LastWriteIs(SlotOf(request), "PUT")
    /\ response.status = 200
    /\ "iata" \notin DOMAIN lastWrite[SlotOf(request)].body
    /\ response.body["iata"] = None

(* C5: a DELETE of a key that holds no document answers 404.               *)
C5_DeleteAbsent ==
    [][(Serves("DELETE") /\ SlotOf(request) \notin DOMAIN store)
           => response'.status = 404]_vars

C5_Witness ==
    /\ Served("DELETE")
    /\ LastWriteIs(SlotOf(request), "DELETE")
    /\ response.status = 404

----------------------------------------------------------------------------
(* C6: on every endpoint, a gateway failure that is neither not-found nor  *)
(* already-exists is answered with status 500 and a body that embeds the   *)
(* failure's message text.                                                 *)
C6_FailureAnswers500 ==
    response # Pending =>
        \A i \in 1..Len(storeCalls) :
            Failed(storeCalls[i]) =>
                /\ response.status = 500
                /\ response.body = [detail |-> UnexpectedError(storeCalls[i].msg)]

----------------------------------------------------------------------------
(* The hotel filter route.                                                 *)

\* The state holds the response to a POST /api/v1/hotel/filter.
Filtered ==
    /\ request.method = "POST"
    /\ request.endpoint = "/api/v1/hotel/filter"
    /\ response # Pending

SixFields == {"description", "name", "title", "city", "country", "state"}

\* The fields of the request's filter that are present (given and not null).
PresentFields ==
    IF request.hotel = None THEN {}
    ELSE {t \in SixFields \cap DOMAIN request.hotel[1] : request.hotel[1][t] # None}

\* The parameter as the client gave it, or the route's default.
Given(param, default) == IF param = None THEN default ELSE param[1]

(* C7: with a filter object that has none of the six fields the filter     *)
(* builder returns an empty list and issues no search request, whatever    *)
(* the limit and offset.                                                   *)
C7_EmptyFilterNoSearch ==
    (Filtered /\ request.hotel # None /\ PresentFields = {})
        => /\ storeCalls = <<>>
           /\ response.status = 200
           /\ response.body = <<>>

C7_Witness ==
    /\ Filtered
    /\ request.hotel = Some([t \in SixFields |-> None])
    /\ request.limit = Some(-1)
    /\ request.offset = Some(VeryLarge)
    /\ storeCalls = <<>>
    /\ response.status = 200

(* C8: with a non-empty set of filter fields the filter builder issues     *)
(* exactly one search request; its query is a conjunction with exactly one *)
(* sub-query per present field and none for an absent one: a match query   *)
(* for description, name and title, an exact-term query for city, country  *)
(* and state, each with the field's value.                                 *)
C8_OneSubQueryPerField ==
    (Filtered /\ PresentFields # {})
        => /\ Len(storeCalls) = 1
           /\ storeCalls[1].op = "search"
           /\ LET q == storeCalls[1].args.query IN
              /\ q.type = "conjunction"
              /\ Len(q.conjuncts) = Cardinality(PresentFields)
              /\ \A t \in PresentFields :
                     \E i \in 1..Len(q.conjuncts) :
                         q.conjuncts[i] =
                             [type |-> IF t \in {"description", "name", "title"}
                                       THEN "match" ELSE "term",
                              field |-> t,
                              value |-> request.hotel[1][t]]

C8_Witness ==
    /\ Filtered
    /\ PresentFields = {"city", "name"}
    /\ Len(storeCalls) = 1
    /\ Len(storeCalls[1].args.query.conjuncts) = 2

(* C9: POST /api/v1/hotel/filter with no filter field present answers 200  *)
(* with an empty array, both when the body is an object whose fields are   *)
(* all null or missing and when the body is omitted.                       *)
C9_NoFieldAnswersEmpty ==
    (Filtered /\ PresentFields = {})
        => /\ response.status = 200
           /\ response.body = <<>>

(* C10: whenever the hotel filter issues a search request, its limit and   *)
(* skip are the caller's limit and offset unchanged (zero, negative and    *)
(* very large ones included), and 10 and 0 when the caller gives none.     *)
C10_LimitSkipVerbatim ==
    Filtered =>
        \A i \in 1..Len(storeCalls) :
            /\ storeCalls[i].args.options.limit = Given(request.limit, 10)
            /\ storeCalls[i].args.options.skip = Given(request.offset, 0)

C10_Witness ==
    /\ Filtered
    /\ request.limit = Some(0)
    /\ request.offset = Some(VeryLarge)
    /\ Len(storeCalls) = 1
    /\ storeCalls[1].args.options.limit = 0
    /\ storeCalls[1].args.options.skip = VeryLarge

----------------------------------------------------------------------------
(* The list routes.                                                        *)

ListEndpoints == {"/api/v1/airline/list", "/api/v1/airport/list"}

\* The state holds the response to a list request whose query the store served.
Listed ==
    /\ request.endpoint \in ListEndpoints
    /\ response # Pending
    /\ \A i \in 1..Len(storeCalls) : ~Failed(storeCalls[i])

ListedCollection ==
    IF request.endpoint = "/api/v1/airline/list"
    THEN AIRLINE_COLLECTION ELSE AIRPORT_COLLECTION

ListedModel == IF request.endpoint = "/api/v1/airline/list" THEN Airline ELSE Airport

NameField == IF request.endpoint = "/api/v1/airline/list" THEN "name" ELSE "airportname"

\* The records the request matches: those of its country when it names one,
\* every record of the collection when it names none or the empty string.
Matching ==
    {s \in KeysIn(store, ListedCollection) :
        (request.country # None /\ request.country # Some(""))
            => FieldOf(store[s], "country") = request.country}

\* The 0-based position of a matching record in the name order: the number of
\* matching records whose name comes before its own.
Position(s) ==
    Cardinality({t \in Matching :
        Rank(FieldOf(store[t], NameField)) < Rank(FieldOf(store[s], NameField))})

\* The positions a page covers: offset .. offset + limit - 1.
PagePositions ==
    Given(request.offset, 0) .. (Given(request.offset, 0) + Given(request.limit, 10) - 1)

(* C11: a list request answers 200 with exactly the matching records at    *)
(* positions offset .. offset+limit-1 of the name order, in that order; the *)
(* matching records are those of the given country, or all of them when no *)
(* country or the empty one is given.                                      *)
C11_PageOfNameOrder ==
    Listed =>
        /\ response.status = 200
        /\ Len(response.body)
               = Cardinality({s \in Matching : Position(s) \in PagePositions})
        /\ \A i \in 1..Len(response.body) :
               \E s \in Matching :
                   /\ Position(s) = Given(request.offset, 0) + i - 1
                   /\ response.body[i] = Validate(ListedModel, store[s])

\* limit=1 offset=1 over the two airlines of France: the second one alone.
C11_Witness ==
    /\ Listed
    /\ request.endpoint = "/api/v1/airline/list"
    /\ request.country = Some("France")
    /\ request.limit = Some(1)
    /\ request.offset = Some(1)
    /\ Len(response.body) = 1
    /\ response.body[1]["name"] = Some("Corsairfly")

----------------------------------------------------------------------------
(* The hotel autocomplete route.                                           *)

\* The state holds the response to a GET /api/v1/hotel/autocomplete.
Autocompleted ==
    /\ request.method = "GET"
    /\ request.endpoint = "/api/v1/hotel/autocomplete"
    /\ response # Pending

(* C12: hotel autocomplete issues one search: a match query on the name    *)
(* field for the given name, with limit 50 and only the name field         *)
(* requested.  When the search is served it answers 200 with one {name}    *)
(* entry per hit, in the store's order, duplicates kept: as many entries   *)
(* as hits the store returned (at most 50, the limit it was given).        *)
C12_AutocompleteOneCappedQuery ==
    Autocompleted =>
        /\ Len(storeCalls) = 1
        /\ storeCalls[1].op = "search"
        /\ storeCalls[1].args.query = [type |-> "match", field |-> "name",
                                       value |-> request.name]
        /\ storeCalls[1].args.options.limit = 50
        /\ storeCalls[1].args.options.fields = <<"name">>
        /\ storeCalls[1].exc = NoExc =>
               /\ response.status = 200
               /\ Len(response.body) = Len(storeCalls[1].rows)
               /\ \A i \in 1..Len(storeCalls[1].rows) :
                      response.body[i] =
                          [name |-> IF "name" \in DOMAIN storeCalls[1].rows[i]
                                    THEN storeCalls[1].rows[i]["name"] ELSE Some("")]

\* Two hits with one name are answered as two entries.
C12_Witness ==
    /\ Autocompleted
    /\ Len(storeCalls) = 1
    /\ storeCalls[1].exc = NoExc
    /\ Len(storeCalls[1].rows) = 2
    /\ response.status = 200
    /\ response.body = <<[name |-> Some("Seal View")], [name |-> Some("Seal View")]>>

----------------------------------------------------------------------------
(* The statements of the list and query routes.                            *)

QueryEndpoints ==
    ListEndpoints \cup {"/api/v1/airline/to-airport", "/api/v1/airport/direct-connections"}

\* The state holds the response to a request of a list or query route.
Queried == request.endpoint \in QueryEndpoints /\ response # Pending

\* What of a request may select the statement: its route, and for a list route
\* whether it names a (non-empty) country.
StatementKey(req) ==
    <<req.endpoint,
      req.endpoint \in ListEndpoints /\ req.country # None /\ req.country # Some("")>>

\* The parameter values of a request.
ParameterValues(req) ==
    IF req.endpoint \in ListEndpoints
    THEN [country |-> req.country,
          limit |-> Given(req.limit, 10), offset |-> Given(req.offset, 0)]
    ELSE [airport |-> req.airport,
          limit |-> Given(req.limit, 10), offset |-> Given(req.offset, 0)]

\* The six statement texts, in the order they appear in the handlers.
StaticTemplates ==
    <<airlines_by_country_statement, airlines_statement, airlines_to_airport_statement,
      airports_by_country_statement, airports_statement, direct_connections_statement>>

(* C15: the query text a list, to-airport or direct-connections request    *)
(* sends is one of six fixed texts, and which one depends only on the      *)
(* route and, for a list route, on whether a non-empty country is given:   *)
(* the values of country, airport, limit and offset are not in the text    *)
(* and travel as the named parameters.                                     *)
C15_StaticStatements ==
    Queried =>
        /\ Len(storeCalls) = 1
        /\ storeCalls[1].op = "query"
        /\ \E k \in 1..Len(StaticTemplates) :
               /\ storeCalls[1].args[1] = StaticTemplates[k]
               /\ k = CASE StatementKey(request) = <<"/api/v1/airline/list", TRUE>> -> 1
                        [] StatementKey(request) = <<"/api/v1/airline/list", FALSE>> -> 2
                        [] StatementKey(request) = <<"/api/v1/airline/to-airport", FALSE>> -> 3
                        [] StatementKey(request) = <<"/api/v1/airport/list", TRUE>> -> 4
                        [] StatementKey(request) = <<"/api/v1/airport/list", FALSE>> -> 5
                        [] StatementKey(request)
                               = <<"/api/v1/airport/direct-connections", FALSE>> -> 6
        /\ storeCalls[1].args[2] = ParameterValues(request)

\* A list request for one country sends the text a request for another does.
C15_Witness ==
    /\ Queried
    /\ request.endpoint = "/api/v1/airport/list"
    /\ request.country = Some("United States")
    /\ request.limit = Some(2)
    /\ storeCalls[1].args[1] = airports_by_country_statement
    /\ storeCalls[1].args[2].country = Some("United States")

----------------------------------------------------------------------------
(* Failures of the search.                                                 *)

\* The state holds the response to a request of a hotel route.
Searched == (Autocompleted \/ Filtered)

\* The handler's search call raised at the call itself: scope.search raised,
\* before `names = []` or `hotels = []` was reached.
SearchCallRaised ==
    \E i \in 1..Len(storeCalls) :
        storeCalls[i].op = "search" /\ storeCalls[i].raised = "call"

(* C19: when the search call itself raises in search_by_name or in filter, *)
(* the hotel autocomplete and the hotel filter route answer 500, never 200 *)
(* (with an empty body or any other).                                      *)
C19_SearchCallFailureAnswers500 ==
    (Searched /\ SearchCallRaised) => response.status = 500

\* The filter route, the search call having raised.
C19_Witness ==
    /\ Filtered
    /\ SearchCallRaised
    /\ response = HTTPException(500,
           UnexpectedError(UnboundLocalError("hotels")))

----------------------------------------------------------------------------
(* What a key-value request leaves alone.                                  *)

\* The step is the handler's, for a key-value request.
HandlesKv ==
    /\ request.endpoint \in KvEndpoints
    /\ response = Pending
    /\ response' # Pending

\* The route documents that name this airline in their airlineid.
RoutesOf(st, airline_id) ==
    {s \in KeysIn(st, ROUTE_COLLECTION) :
        FieldOf(st[s], "airlineid") = Some(airline_id)}

\* The body names, in its airlineid, an airline the store does not hold.
NamesNoAirline(body) ==
    /\ "airlineid" \in DOMAIN body
    /\ body["airlineid"] # None
    /\ <<AIRLINE_COLLECTION, body["airlineid"][1]>> \notin DOMAIN store

(* C20: a key-value request on (collection, key) leaves every document     *)
(* under another key or in another collection as it was, and creates or    *)
(* removes none.  So a POST or PUT of a route whose airlineid names no     *)
(* stored airline succeeds (201 on an absent key, 200), and the DELETE of  *)
(* an airline leaves the routes that name it unchanged.                    *)
C20_OnlyTheAddressedDocument ==
    /\ [][HandlesKv =>
              \A s \in (DOMAIN store \cup DOMAIN store') \ {SlotOf(request)} :
                  /\ s \in DOMAIN store
                  /\ s \in DOMAIN store'
                  /\ store'[s] = store[s]]_vars
    /\ [][(/\ Serves("POST")
           /\ request.endpoint = "/api/v1/route/{id}"
           /\ SlotOf(request) \notin DOMAIN store
           /\ NamesNoAirline(request.body))
              => response'.status = 201 /\ SlotOf(request) \in DOMAIN store']_vars
    /\ [][(/\ Serves("PUT")
           /\ request.endpoint = "/api/v1/route/{id}"
           /\ NamesNoAirline(request.body))
              => response'.status = 200 /\ SlotOf(request) \in DOMAIN store']_vars
    /\ [][(/\ Serves("DELETE")
           /\ request.endpoint = "/api/v1/airline/{id}")
              => \A s \in RoutesOf(store, request.id) :
                     s \in DOMAIN store' /\ store'[s] = store[s]]_vars

\* The airline of a stored route has been deleted (204), the route is still
\* there; and the route last created names an airline that was never stored.
C20_Witness ==
    /\ Served("DELETE")
    /\ SlotOf(request) = <<AIRLINE_COLLECTION, EXAMPLE_AIRLINE_ID>>
    /\ response.status = 204
    /\ <<AIRLINE_COLLECTION, EXAMPLE_AIRLINE_ID>> \notin DOMAIN store
    /\ RoutesOf(store, EXAMPLE_AIRLINE_ID) # {}
    /\ LastWriteIs(<<ROUTE_COLLECTION, EXAMPLE_ROUTE_ID>>, "POST")
    /\ store[<<ROUTE_COLLECTION, EXAMPLE_ROUTE_ID>>]["airlineid"] = Some("airline_0")
    /\ <<AIRLINE_COLLECTION, "airline_0">> \notin DOMAIN store

----------------------------------------------------------------------------
(* One store call per request.                                             *)

\* The state holds the response to a key-value, list or query request.
Handled ==
    /\ request.endpoint \in KvEndpoints \cup QueryEndpoints
    /\ response # Pending

(* C18: a key-value, list or query handler has made exactly one call to    *)
(* the store when it answers, also when that call failed: the handler then *)
(* answers with an error status and makes no second call.                  *)
C18_OneStoreCall ==
    Handled =>
        /\ Len(storeCalls) = 1
        /\ storeCalls[1].exc # NoExc => response.status \in {404, 409, 500}

\* A query that timed out, answered 500 after the one call.
C18_Witness ==
    /\ Handled
    /\ request.endpoint = "/api/v1/airport/direct-connections"
    /\ Len(storeCalls) = 1
    /\ Failed(storeCalls[1])
    /\ response.status = 500

----------------------------------------------------------------------------
(* The cached client.                                                      *)

\* The runs of connect that get_db started.
GetDbBootstraps == {i \in 1..Len(bootstraps) : bootstraps[i].by = "get_db"}

(* C13: over the get_db calls of one process (the startup's and the        *)
(* requests'), the client is constructed and connect is run at most once:  *)
(* once a call has run connect, whether or not it succeeded, the client is *)
(* held and it is the one every call returns.                              *)
C13_GetDbConstructsOnce ==
    /\ Cardinality(GetDbBootstraps) <= 1
    /\ GetDbBootstraps # {} => cache # None
    /\ (request.endpoint \in DependsOnGetDb /\ db # NoDb) => db = cache

(* C14: when the cluster cannot be reached at startup, or the connection   *)
(* string, user name or password is not in the environment, get_db still   *)
(* returns a client and the startup completes.                             *)
C14_ConnectFailureNonFatal ==
    /\ lifespan # "failed"
    /\ \A i \in GetDbBootstraps : bootstraps[i].exc = NoExc

----------------------------------------------------------------------------
(* The lifespan.                                                           *)

\* A request is being served: one is in flight or answered.
Serving == request # NoRequest \/ response # Pending \/ db # NoDb \/ threadpool # <<>>

(* C16: no request is served before the startup's get_db has returned;     *)
(* close is called at most once, only by the shutdown of a lifespan that   *)
(* had started, and the shutdown completes also when closing raised, the   *)
(* error being caught; on a client without a cluster close calls nothing.  *)
C16_StartupCloseOrder ==
    /\ [](Serving => (lifespan = "started" /\ cache # None))
    /\ [](lifespan \in {"started", "closed"} => GetDbBootstraps # {})
    /\ [](Len(closes) = (IF lifespan = "closed" THEN 1 ELSE 0))
    /\ [][closes' # closes =>
              /\ lifespan = "started"
              /\ lifespan' = "closed"
              /\ ~Serving
              /\ closes' = Append(closes, closes'[Len(closes')])
              /\ closes'[Len(closes')].client = cache[1]]_vars
    /\ [](\A i \in 1..Len(closes) : closes[i].exc = NoExc)
    /\ [](lifespan # "shutdown_failed")
    /\ [](\A e \in Environs : \A o \in CloseOutcomes :
              LET unconnected == Fields(e.DB_CONN_STR, e.DB_USERNAME, e.DB_PASSWORD)
              IN  /\ ~close(unconnected, o).cluster_closed
                  /\ close(unconnected, o).exc = NoExc)

\* The shutdown has completed although closing the cluster raised.
C16_Witness ==
    /\ lifespan = "closed"
    /\ Len(closes) = 1
    /\ closes[1].cluster_closed
    /\ closes[1].log = <<"Error closing cluster.">>

----------------------------------------------------------------------------
(* The shared client.                                                      *)

(* C17: once get_db has returned the shared client, no step, of whichever  *)
(* of the concurrently handled requests, changes its cluster, bucket or    *)
(* scope or replaces it, every handler is given that client, and no second *)
(* connection is opened.                                                   *)
C17_SharedClientUntouched ==
    /\ [][cache # None =>
              /\ cache' = cache
              /\ clients'[cache[1]] = clients[cache[1]]
              /\ Opened' = Opened]_vars
    /\ [](db # NoDb => db = cache)
    /\ [](lifespan = "started" => Cardinality(Opened) = 1 /\ Len(clients) = 1)

\* Two requests in flight at once, on an airport route and a hotel route,
\* both answered through the one client of the one connection.
C17_Witness ==
    /\ Len(threadpool) = 1
    /\ threadpool[1].request.endpoint = "/api/v1/airport/{id}"
    /\ threadpool[1].db = cache
    /\ threadpool[1].response.status = 200
    /\ request.endpoint = "/api/v1/hotel/autocomplete"
    /\ db = cache
    /\ response.status = 200
    /\ Len(bootstraps) = 1

----------------------------------------------------------------------------
(* What a request that fails, or that only reads, leaves behind.            *)

SearchEndpoints == {"/api/v1/hotel/autocomplete", "/api/v1/hotel/filter"}

\* The step is a handler's: it answers the request in flight.
Answers == request # NoRequest /\ response = Pending /\ response' # Pending

\* The request in flight only reads: a GET, or a list, query or search request
\* (the hotel filter is a search sent with POST).
ReadOnly == request.method = "GET" \/ request.endpoint \in QueryEndpoints \cup SearchEndpoints

(* C21: a handler step that answers with an error status (4xx or 5xx), and  *)
(* every handler step of a GET, list, query or search request, leaves the   *)
(* store as it was: after a POST answered 409 the key holds the document it *)
(* held before, and a GET or DELETE answered 404 leaves the key without a   *)
(* document.                                                                *)
C21_FailuresAndReadsKeepStore ==
    /\ [][(Answers /\ (response'.status >= 400 \/ ReadOnly))
              => store' = store /\ lastWrite' = lastWrite]_vars
    /\ [][(Answers /\ request.endpoint \in KvEndpoints /\ response'.status = 409)
              => /\ SlotOf(request) \in DOMAIN store
                 /\ store'[SlotOf(request)] = store[SlotOf(request)]]_vars
    /\ [][(Answers /\ request.endpoint \in KvEndpoints /\ response'.status = 404)
              => SlotOf(request) \notin DOMAIN store']_vars

\* A POST answered 409 whose body is not the one stored under the key: the
\* key still holds what the earlier POST wrote.
C21_Witness ==
    /\ Served("POST")
    /\ request.endpoint = "/api/v1/airline/{id}"
    /\ response.status = 409
    /\ LastWriteIs(SlotOf(request), "POST")
    /\ lastWrite[SlotOf(request)].body # request.body
    /\ store[SlotOf(request)] # model_dump(Validate(Airline, request.body))

----------------------------------------------------------------------------
(* Two creations of one key at once.                                       *)

\* The waiting exchanges that are POST requests for the key of the request the
\* running worker handles.
Rivals ==
    {w \in 1..Len(threadpool) :
        /\ threadpool[w].request.method = "POST"
        /\ threadpool[w].request.endpoint = request.endpoint
        /\ threadpool[w].request.id = request.id}

\* The document create_airline stores for a request.
Document(req) == model_dump(Validate(Airline, req.body))

(* C22: of two POST requests in flight at once for one key that holds no   *)
(* document, whichever handler the store serves first answers 201 and its  *)
(* body is stored; the other, whose handler runs after it, answers 409 and *)
(* leaves in the store the document of the one that answered 201 (no       *)
(* other request having written the key in between).                       *)
C22_ConcurrentCreatesOneWins ==
    /\ [][(/\ Serves("POST")
           /\ \E w \in Rivals : threadpool[w].response = Pending
           /\ SlotOf(request) \notin DOMAIN store)
              => /\ response'.status = 201
                 /\ store'[SlotOf(request)] = Document(request)]_vars
    /\ [][\A w \in Rivals :
              (/\ Serves("POST")
               /\ threadpool[w].response.status = 201
               /\ LastWriteIs(SlotOf(request), "POST")
               /\ lastWrite[SlotOf(request)].body = threadpool[w].request.body)
                  => /\ response'.status = 409
                     /\ store' = store
                     /\ store'[SlotOf(request)] = Document(threadpool[w].request)]_vars

\* Both requests were in flight before either handler ran (neither response
\* has been sent); one has answered 201, the other 409, and the key holds the
\* document of the first, which is not the one the other sent.
C22_Witness ==
    /\ Len(threadpool) = 1
    /\ Rivals = {1}
    /\ request.method = "POST"
    /\ threadpool[1].response.status = 201
    /\ response.status = 409
    /\ Document(request) # Document(threadpool[1].request)
    /\ store[SlotOf(request)] = Document(threadpool[1].request)

----------------------------------------------------------------------------
(* A search that fails while its rows are read.                            *)

(* C23: a hotel autocomplete or hotel filter response with status 200 that *)
(* followed a search holds every row the store produced for that search:   *)
(* the reading of the rows did not fail, and the response has one entry    *)
(* per row.                                                                *)
C23_OkCarriesEveryRow ==
    (Searched /\ response.status = 200) =>
        \A i \in 1..Len(storeCalls) :
            /\ storeCalls[i].raised # "rows"
            /\ Len(response.body) = Len(storeCalls[i].rows)

=============================================================================
